---- MODULE Spec2Model ----
(***************************************************************************)
(* A model of the continual-learning agent NormalNN of agents/default.py:  *)
(* the valid_out_dim state machine, the loss aggregation of criterion, the *)
(* metric accumulation of accumulate_acc/_mcc/_corr, validation, and the   *)
(* epoch loop of learn_batch.                                              *)
(*                                                                         *)
(* Tensors are not modelled by their numbers.  A prediction map is its     *)
(* sequence of keys with the width of each head; a batch is the sequence   *)
(* of its per-sample task labels; the value the base loss function         *)
(* (self.criterion_fn, averaging over the rows it is given) returns for a  *)
(* head is an opaque integer base[t], in thousandths.                      *)
(***************************************************************************)
EXTENDS Integers, Sequences, FiniteSets, TLC

VARIABLES
    config,          \* agent_config and args: out_dim, schedule, model output kind, args.output_mode
    tasks,           \* the per-sample task labels of a mini-batch
    base,            \* value of criterion_fn on each head's rows of that batch
    scores,          \* value of the metric function on each head's rows of that batch
    valid_out_dim,   \* self.valid_out_dim
    training,        \* self.training (the agent is an nn.Module)
    model_training,  \* self.model.training
    criterion_fn,    \* self.criterion_fn ("unset" until something assigns it)
    reset_optimizer, \* self.reset_optimizer
    config_optimizer, \* self.config['optimizer'], the one entry of the config that is rewritten
    optimizer,       \* self.optimizer: which init_optimizer call built it, its steps
    scheduler,       \* self.scheduler: which init_optimizer call built it, its steps
    params,          \* version of the model parameters (one per optimizer step)
    pc,              \* position inside learn_batch, "idle" outside it
    lb,              \* locals and per-epoch history of the running learn_batch call
    loss,            \* result of the last criterion call
    meter,           \* the metric meter of the running epoch: its update calls
    val_meter,       \* the metric meter of the last validation pass
    ncalls,          \* number of public calls made on the agent
    lastOp,          \* the last public call and its arguments
    ret,             \* what that call returned or raised
    avg_meter,       \* an AverageMeter: its sum and its count
    applied          \* which update calls of a pass avg_meter has received, in order

vars == <<config, tasks, base, valid_out_dim, training, model_training,
          criterion_fn, reset_optimizer, optimizer, scheduler, params,
          pc, lb, loss, meter, val_meter, ncalls, lastOp, ret,
          scores, avg_meter, applied, config_optimizer>>

agentVars == <<valid_out_dim, training, model_training, criterion_fn,
               reset_optimizer, optimizer, scheduler, params, config_optimizer>>

inputVars == <<config, tasks, base, scores>>

meterVars == <<avg_meter, applied>>

----------------------------------------------------------------------------
(* Bounds *)

MaxBatch == 2
MaxCalls == 2
MaxLoaderLen == 2
MaxSchedule == 2

----------------------------------------------------------------------------
(* Values *)

ALL == [tag |-> "ALL", n |-> 0]

IntDim(n) == [tag |-> "int", n |-> n]

IsInt(v) == v.tag = "int"

\* dim arguments of add_valid_output_dim: any Python int, 0 being the default
Dims == {-1, 0, 5, 10}

\* names glue_output_modes knows; 'cola' and 'mrpc' classify, 'sts-b' regresses
TaskNames == {"cola", "mrpc", "sts-b"}

output_modes(name) == IF name = "sts-b" THEN "regression" ELSE "classification"

OutputModes == {"classification", "regression"}

\* task labels a data pipeline attaches to samples
Labels == {"All", "A", "B", "X"}

LossVals == {1000, 2000}

\* values of a metric on one head's rows, in thousandths
ScoreVals == {500, 1000}

OutHead(t, d) == [task |-> t, dim |-> d]

\* agent_config['out_dim'] in insertion order, and what the model's forward returns
SingleHeadAll == [out_dim |-> <<OutHead("All", 20)>>, out |-> "dict"]

OutDims ==
    { SingleHeadAll,
      [out_dim |-> <<OutHead("A", 2)>>, out |-> "dict"],
      [out_dim |-> <<OutHead("A", 2), OutHead("B", 3)>>, out |-> "dict"],
      [out_dim |-> <<OutHead("All", 2), OutHead("A", 2)>>, out |-> "dict"],
      [out_dim |-> <<OutHead("All", 2)>>, out |-> "SequenceClassifierOutput"] }

Schedules == { [i \in 1..n |-> i] : n \in 1..MaxSchedule }

Cfg(o, s, m) == [out_dim |-> o.out_dim, out |-> o.out, schedule |-> s, output_mode |-> m,
                 print_freq |-> 1, optimizer |-> "SGD"]

\* agent_config['optimizer']
WithOptimizer(cfg, name) == [cfg EXCEPT !.optimizer = name]

\* agent_config['print_freq']
PrintFreqs == {-1, 0, 1, 2}

WithPrintFreq(cfg, p) == [cfg EXCEPT !.print_freq = p]

\* the configurations of a run: every schedule and every args.output_mode on the
\* single-head model, and every kind of model on a one-epoch schedule
Configs ==
    { Cfg(SingleHeadAll, s, m) : s \in Schedules, m \in OutputModes }
    \cup { Cfg(o, <<1>>, "classification") : o \in OutDims }

\* the configurations of a training run: every print frequency on a one-epoch
\* schedule, and every schedule with printing on
TrainConfigs ==
    { WithPrintFreq(Cfg(SingleHeadAll, <<1>>, "classification"), p) : p \in PrintFreqs }
    \cup { Cfg(SingleHeadAll, s, "classification") : s \in Schedules }

\* the batch of the worked example: three samples of task A, five of task B
ExampleBatch == <<"A", "A", "A", "B", "B", "B", "B", "B">>

Batches == UNION { [1..n -> Labels] : n \in 1..MaxBatch } \cup {ExampleBatch}

Range(s) == { s[i] : i \in DOMAIN s }

----------------------------------------------------------------------------
(* The model's output and the mode flag *)

multihead(cfg) == Len(cfg.out_dim) > 1

\* What self.forward returns: a dict with one entry per configured head (each
\* head evaluates every sample), or a transformers SequenceClassifierOutput,
\* whose entries are (loss, logits).
forward(cfg) ==
    IF cfg.out = "dict"
    THEN [kind |-> "dict",
          keys |-> [j \in 1..Len(cfg.out_dim) |-> cfg.out_dim[j].task],
          width |-> [j \in 1..Len(cfg.out_dim) |-> cfg.out_dim[j].dim]]
    ELSE [kind |-> "SequenceClassifierOutput",
          keys |-> <<"loss", "logits">>,
          width |-> <<0, cfg.out_dim[1].dim>>]

HasKey(preds, k) == \E j \in 1..Len(preds.keys) : preds.keys[j] = k

KeyIndex(preds, k) == CHOOSE j \in 1..Len(preds.keys) : preds.keys[j] = k

Columns(w) == 0..(w - 1)

Rows(tk) == 0..(Len(tk) - 1)

----------------------------------------------------------------------------
(* criterion *)

\* [i for i in range(len(tasks)) if tasks[i]==t]
Inds(tk, t) == { i \in Rows(tk) : tk[i + 1] = t }

\* the columns pred[:, :k] keeps of a tensor with w columns (Python slicing:
\* a negative stop counts from the end, a stop beyond the end is the end)
SliceTo(w, k) ==
    IF k >= 0 THEN { c \in Columns(w) : c < k }
              ELSE { c \in Columns(w) : c < w + k }

\* one application of self.criterion_fn, and the factor it is multiplied by
Term(fn, key, rows, cols, weight) ==
    [fn |-> fn, key |-> key, rows |-> rows, cols |-> cols, weight |-> weight]

NoLoss == [status |-> "none", num |-> 0, den |-> 1, terms |-> <<>>]

HeadLossUnweighted(value, inds) == value

\* loss += self.criterion_fn(t_preds, t_target) * len(inds)
HeadLoss(value, inds) == value * Cardinality(inds)

\* the loop over preds.items(), from entry j on; acc is the loss so far
RECURSIVE MultiHeadLoop(_, _, _, _, _, _)
MultiHeadLoop(preds, j, tk, fn, b, acc) ==
    IF j > Len(preds.keys) \/ acc.status # "ok" THEN acc
    ELSE LET t == preds.keys[j]
             inds == Inds(tk, t)
         IN  IF Cardinality(inds) > 0
             THEN IF fn = "unset"
                  THEN [acc EXCEPT !.status = "AttributeError"]
                  ELSE MultiHeadLoop(preds, j + 1, tk, fn, b,
                         [acc EXCEPT
                            !.num = @ + HeadLoss(b[t], inds),
                            !.terms = Append(@, Term(fn, t, inds,
                                         Columns(preds.width[j]), Cardinality(inds)))])
             ELSE MultiHeadLoop(preds, j + 1, tk, fn, b, acc)

SingleHeadLossOfOnlyHead(preds, tk, fn, b, vod) ==
    IF fn = "unset"
    THEN [NoLoss EXCEPT !.status = "AttributeError"]
    ELSE LET j == Len(preds.keys)
         IN  [status |-> "ok", num |-> b[preds.keys[j]], den |-> 1,
              terms |-> <<Term(fn, preds.keys[j], Rows(tk), Columns(preds.width[j]), 1)>>]

\* the single-head branch
SingleHeadLoss(preds, tk, fn, b, vod) ==
    IF HasKey(preds, "All")
    THEN LET w == preds.width[KeyIndex(preds, "All")]
             cols == IF IsInt(vod) THEN SliceTo(w, vod.n) ELSE Columns(w)
         IN  IF fn = "unset"
             THEN [NoLoss EXCEPT !.status = "AttributeError"]
             ELSE [status |-> "ok", num |-> b["All"], den |-> 1,
                   terms |-> <<Term(fn, "All", Rows(tk), cols, 1)>>]
    ELSE \* preds[1]: the second entry of a SequenceClassifierOutput, a KeyError on a dict
         IF fn = "unset"
         THEN [NoLoss EXCEPT !.status = "AttributeError"]
         ELSE IF preds.kind = "dict"
              THEN [NoLoss EXCEPT !.status = "KeyError"]
              ELSE [status |-> "ok", num |-> b[preds.keys[2]], den |-> 1,
                    terms |-> <<Term(fn, preds.keys[2], Rows(tk),
                                     Columns(preds.width[2]), 1)>>]

\* self.criterion(preds, targets, tasks); the loss is num/den thousandths
criterion(mh, preds, tk, fn, b, vod) ==
    IF mh
    THEN LET sum == MultiHeadLoop(preds, 1, tk, fn, b,
                       [status |-> "ok", num |-> 0, den |-> 1, terms |-> <<>>])
         IN  IF sum.status = "ok" THEN [sum EXCEPT !.den = Len(tk)] ELSE sum
    ELSE SingleHeadLoss(preds, tk, fn, b, vod)

----------------------------------------------------------------------------
(* accumulate_acc, accumulate_mcc, accumulate_corr *)

\* meter.update(metric(out, target), n): the call, not its arithmetic; out is the
\* given rows and columns of the head `key`
Update(metric, key, rows, cols, n) ==
    [metric |-> metric, key |-> key, rows |-> rows, cols |-> cols, n |-> n]

RECURSIVE AccumulateLoop(_, _, _, _, _)
AccumulateLoop(metric, output, j, tk, m) ==
    IF j > Len(output.keys) THEN m
    ELSE LET t == output.keys[j]
             inds == Inds(tk, t)
         IN  IF Cardinality(inds) > 0
             THEN AccumulateLoop(metric, output, j + 1, tk,
                                 Append(m, Update(metric, t, inds, Columns(output.width[j]),
                                                  Cardinality(inds))))
             ELSE AccumulateLoop(metric, output, j + 1, tk, m)

Accumulate(metric, output, tk, m) ==
    IF output.kind = "SequenceClassifierOutput"
    THEN Append(m, Update(metric, output.keys[2], Rows(tk), Columns(output.width[2]),
                          Len(tk)))
    ELSE IF HasKey(output, "All")
         THEN Append(m, Update(metric, "All", Rows(tk),
                               Columns(output.width[KeyIndex(output, "All")]), Len(tk)))
         ELSE AccumulateLoop(metric, output, 1, tk, m)

accumulate_acc(output, tk, m) == Accumulate("accuracy", output, tk, m)

accumulate_mcc(output, tk, m) == Accumulate("matthews", output, tk, m)

accumulate_corr(output, tk, m) == Accumulate("pearson_and_spearman", output, tk, m)

\* which meter a pass over the task `name` creates and feeds:
\* 'cola' the Matthews meter, otherwise by the task's own output mode
MeterOf(name) ==
    IF name = "cola" THEN "mcc"
    ELSE IF output_modes(name) = "classification" THEN "acc"
    ELSE "corr"

AccumulateFor(name, output, tk, m) ==
    IF name = "cola" THEN accumulate_mcc(output, tk, m)
    ELSE IF output_modes(name) = "classification" THEN accumulate_acc(output, tk, m)
    ELSE accumulate_corr(output, tk, m)

----------------------------------------------------------------------------
(* utils.metric.AverageMeter *)

\* AverageMeter(): sum 0 and count 0
AverageMeter == [sum |-> 0, count |-> 0]

MeterUpdateOverwrites(m, val, n) == [sum |-> val * n, count |-> m.count + n]

\* update(val, n): sum += val * n; count += n  (avg is sum / count)
MeterUpdate(m, val, n) == [sum |-> m.sum + val * n, count |-> m.count + n]

\* the meter after the update calls log[1..k], in the order they were made
RECURSIVE MeterAfter(_, _, _)
MeterAfter(log, sc, k) ==
    IF k = 0 THEN AverageMeter
    ELSE MeterUpdate(MeterAfter(log, sc, k - 1), sc[log[k].key], log[k].n)

\* m1.avg = m2.avg, for meters that received an update of positive weight
SameAvg(m1, m2) == m1.sum * m2.count = m2.sum * m1.count

----------------------------------------------------------------------------
(* Construction *)

Op(op, dim, name, train_len, val_len) ==
    [op |-> op, dim |-> dim, name |-> name, train_len |-> train_len, val_len |-> val_len]

Ret(status, kind, n) == [status |-> status, kind |-> kind, n |-> n]

\* the locals of learn_batch, and how often the call has so far reinitialised the
\* optimizer, stepped the scheduler and invoked validation
NoLB == [train_name |-> "", train_len |-> 0, has_val |-> FALSE, val_len |-> 0,
         epoch |-> 0, i |-> 0,
         resets |-> 0, sched_steps |-> 0, val_calls |-> 0,
         batches |-> 0, done |-> <<>>, opt_steps |-> 0, visited |-> <<>>,
         log |-> <<>>, losses |-> <<>>]

\* a line handed to self.log
Line(kind, epoch, i) == [kind |-> kind, epoch |-> epoch, i |-> i]

LogPrints(cfg, log, line) == Append(log, line)

\* self.log = print if agent_config['print_freq'] > 0 else lambda *args: None
Log(cfg, log, line) == IF cfg.print_freq > 0 THEN Append(log, line) ELSE log

\* ((print_freq > 0) and (i % print_freq == 0)) or (i + 1) == len(train_loader)
ProgressDue(cfg, i, n) == (cfg.print_freq > 0 /\ i % cfg.print_freq = 0) \/ i + 1 = n

\* self.config['optimizer']
OptimizerNames == {"SGD", "RMSprop", "Rprop", "Adam", "amsgrad"}

\* the keyword arguments the optimizer is built with: params, lr and weight_decay,
\* plus momentum for SGD and RMSprop, less weight_decay for Rprop, plus amsgrad
\* for 'amsgrad'
OptimizerArg(name) ==
    IF name \in {"SGD", "RMSprop"} THEN {"params", "lr", "weight_decay", "momentum"}
    ELSE IF name = "Rprop" THEN {"params", "lr"}
    ELSE IF name = "amsgrad" THEN {"params", "lr", "weight_decay", "amsgrad"}
    ELSE {"params", "lr", "weight_decay"}

\* self.config['optimizer'] = 'Adam', in the 'amsgrad' branch
NameLeft(name) == IF name = "amsgrad" THEN "Adam" ELSE name

\* self.init_optimizer(), with `name` in self.config['optimizer']: a new
\* optimizer of the class torch.optim.__dict__[self.config['optimizer']], a new
\* MultiStepLR scheduler on it, and the name the config is left with
init_optimizer(gen, name) ==
    [optimizer |-> [gen |-> gen, zero_grads |-> 0, steps |-> 0,
                    kind |-> NameLeft(name), args |-> OptimizerArg(name)],
     scheduler |-> [gen |-> gen, steps |-> 0, last_epoch |-> -1],
     config_optimizer |-> NameLeft(name)]

\* NormalNN.__init__
InitAgent ==
    /\ training = TRUE
    /\ model_training = TRUE
    /\ criterion_fn = "unset"
    /\ optimizer = init_optimizer(1, config.optimizer).optimizer
    /\ scheduler = init_optimizer(1, config.optimizer).scheduler
    /\ config_optimizer = init_optimizer(1, config.optimizer).config_optimizer
    /\ params = 0
    /\ reset_optimizer = FALSE
    /\ valid_out_dim = ALL
    /\ pc = "idle"
    /\ lb = NoLB
    /\ loss = NoLoss
    /\ meter = <<>>
    /\ val_meter = <<>>
    /\ ncalls = 0
    /\ lastOp = Op("__init__", 0, "", 0, 0)
    /\ ret = Ret("ok", "None", 0)
    /\ avg_meter = AverageMeter
    /\ applied = <<>>

\* the batch the loaders of a run yield: a mix of labels, or (for a multi-head
\* model) one whose label no head carries
RunBatches == { <<"All", "A", "B">>, <<"X">> }

Keys(cfg) == Range(forward(cfg).keys)

Init ==
    /\ config \in Configs
    /\ tasks \in IF multihead(config) THEN RunBatches ELSE {<<"All", "A", "B">>}
    /\ base = [k \in Keys(config) |-> 1000]
    /\ scores = [k \in Keys(config) |-> 1000]
    /\ InitAgent

CanCall == pc = "idle" /\ ncalls < MaxCalls

\* the locals of an earlier call (its loss, its meters, its loop counters) are gone
\* when the next call starts
NoLocals == lb' = NoLB /\ loss' = NoLoss /\ meter' = <<>> /\ val_meter' = <<>>

----------------------------------------------------------------------------
(* add_valid_output_dim, learn_stream, predict *)

NewValidOutDimKeepsSentinel(v, dim) == IntDim(IF IsInt(v) THEN v.n + dim ELSE 0)

\* if self.valid_out_dim == 'ALL': self.valid_out_dim = 0
\* self.valid_out_dim += dim
NewValidOutDim(v, dim) == IntDim((IF IsInt(v) THEN v.n ELSE 0) + dim)

add_valid_output_dim(dim) ==
    /\ CanCall
    /\ valid_out_dim' = NewValidOutDim(valid_out_dim, dim)
    /\ ret' = Ret("ok", "int", valid_out_dim'.n)
    /\ lastOp' = Op("add_valid_output_dim", dim, "", 0, 0)
    /\ ncalls' = ncalls + 1
    /\ NoLocals
    /\ UNCHANGED <<inputVars, meterVars, training, model_training, criterion_fn, reset_optimizer, config_optimizer,
                   optimizer, scheduler, params, pc>>

LearnStreamReturnsNone == Ret("ok", "None", 0)

\* assert False,'No implementation yet'
LearnStreamOutcome == Ret("AssertionError", "None", 0)

learn_stream ==
    /\ CanCall
    /\ ret' = LearnStreamOutcome
    /\ lastOp' = Op("learn_stream", 0, "", 0, 0)
    /\ ncalls' = ncalls + 1
    /\ NoLocals
    /\ UNCHANGED <<inputVars, meterVars, agentVars, pc>>

\* self.model.eval(); out = self.forward(inputs); detach every entry
predict ==
    /\ CanCall
    /\ model_training' = FALSE
    /\ ret' = Ret("ok", forward(config).kind, 0)
    /\ lastOp' = Op("predict", 0, "", 0, 0)
    /\ ncalls' = ncalls + 1
    /\ NoLocals
    /\ UNCHANGED <<inputVars, meterVars, valid_out_dim, training, criterion_fn, reset_optimizer, config_optimizer,
                   optimizer, scheduler, params, pc>>

save_model_clearing_dim ==
    /\ CanCall
    /\ valid_out_dim' = ALL
    /\ ret' = Ret("ok", "None", 0)
    /\ lastOp' = Op("save_model", 0, "", 0, 0)
    /\ ncalls' = ncalls + 1
    /\ NoLocals
    /\ UNCHANGED <<inputVars, meterVars, training, model_training, criterion_fn,
                   reset_optimizer, config_optimizer, optimizer, scheduler, params, pc>>

\* save_model(filename): a copy of the model's state goes to the file
save_model ==
    /\ CanCall
    /\ ret' = Ret("ok", "None", 0)
    /\ lastOp' = Op("save_model", 0, "", 0, 0)
    /\ ncalls' = ncalls + 1
    /\ NoLocals
    /\ UNCHANGED <<inputVars, meterVars, agentVars, pc>>

\* self.init_optimizer(), called on a constructed agent
call_init_optimizer ==
    /\ CanCall
    /\ optimizer' = init_optimizer(optimizer.gen + 1, config_optimizer).optimizer
    /\ scheduler' = init_optimizer(optimizer.gen + 1, config_optimizer).scheduler
    /\ config_optimizer' = init_optimizer(optimizer.gen + 1, config_optimizer).config_optimizer
    /\ ret' = Ret("ok", "None", 0)
    /\ lastOp' = Op("init_optimizer", 0, "", 0, 0)
    /\ ncalls' = ncalls + 1
    /\ NoLocals
    /\ UNCHANGED <<inputVars, meterVars, valid_out_dim, training, model_training,
                   criterion_fn, reset_optimizer, params, pc>>

----------------------------------------------------------------------------
(* validation *)

LossFnOf(output_mode) ==
    IF output_mode = "classification" THEN "CrossEntropyLoss" ELSE "MSELoss"

\* the meter the log and return statements read: chosen by 'cola' and then by
\* self.args.output_mode
ReadMeter(val_name, args_mode) ==
    IF val_name = "cola" THEN "mcc"
    ELSE IF args_mode = "classification" THEN "acc"
    ELSE IF args_mode = "regression" THEN "corr"
    ELSE "None"

\* the meter after the loop over a loader of n batches
RECURSIVE ValidationLoop(_, _, _, _, _)
ValidationLoop(val_name, output, tk, n, m) ==
    IF n = 0 THEN m
    ELSE ValidationLoop(val_name, output, tk, n - 1, AccumulateFor(val_name, output, tk, m))

\* orig_mode = self.training ... self.train(orig_mode)
RestoredMode(agent_mode, model_mode) == agent_mode

\* what validation leaves in self.criterion_fn
ValidationLossFn(val_name) == LossFnOf(output_modes(val_name))

\* the value validation returns, or the error reading a meter that was never created
ValidationReturn(val_name, args_mode, n) ==
    IF ReadMeter(val_name, args_mode) = MeterOf(val_name)
    THEN Ret("ok", MeterOf(val_name), n)
    ELSE IF ReadMeter(val_name, args_mode) = "None"
         THEN Ret("ok", "None", n)
         ELSE Ret("UnboundLocalError", ReadMeter(val_name, args_mode), n)

\* the state validation(val_name, dataloader) leaves, for a loader of n batches
ValidationEffect(val_name, n) ==
    /\ criterion_fn' = ValidationLossFn(val_name)
    /\ training' = training
    /\ model_training' = RestoredMode(training, model_training)
    /\ val_meter' = ValidationLoop(val_name, forward(config), tasks, n, <<>>)
    /\ UNCHANGED <<valid_out_dim, reset_optimizer, config_optimizer, optimizer, scheduler, params>>

validation(val_name, n) ==
    /\ CanCall
    /\ ValidationEffect(val_name, n)
    /\ ret' = ValidationReturn(val_name, config.output_mode, n)
    /\ lastOp' = Op("validation", 0, val_name, 0, n)
    /\ ncalls' = ncalls + 1
    /\ lb' = NoLB /\ loss' = NoLoss /\ meter' = <<>>
    /\ UNCHANGED <<inputVars, meterVars, pc>>

----------------------------------------------------------------------------
(* learn_batch *)

Last(seq) == seq[Len(seq)]

EpochsThroughLast(cfg) == 0..Last(cfg.schedule)

\* for epoch in range(self.config['schedule'][-1])
Epochs(cfg) == 0..(Last(cfg.schedule) - 1)

LoaderLens == 1..MaxLoaderLen

\* len(train_loader)
TrainLens == 1..(MaxLoaderLen + 1)

ResetNever(flag) == FALSE

\* if self.reset_optimizer
ResetDue(flag) == flag

\* the call up to the epoch loop: the optional optimizer reset and the choice of
\* the base loss function
learn_batch(train_name, train_len, has_val, val_len) ==
    /\ CanCall
    /\ IF ResetDue(reset_optimizer)
       THEN /\ optimizer' = init_optimizer(optimizer.gen + 1, config_optimizer).optimizer
            /\ scheduler' = init_optimizer(optimizer.gen + 1, config_optimizer).scheduler
            /\ config_optimizer' =
                   init_optimizer(optimizer.gen + 1, config_optimizer).config_optimizer
       ELSE UNCHANGED <<optimizer, scheduler, config_optimizer>>
    /\ criterion_fn' = LossFnOf(output_modes(train_name))
    /\ lb' = [NoLB EXCEPT !.train_name = train_name, !.train_len = train_len,
                          !.has_val = has_val, !.val_len = val_len,
                          !.resets = IF ResetDue(reset_optimizer) THEN 1 ELSE 0,
                          !.log = IF ResetDue(reset_optimizer)
                                  THEN Log(config, <<>>, Line("reset", 0, 0))
                                  ELSE <<>>]
    /\ pc' = IF 0 \in Epochs(config) THEN "epoch" ELSE "idle"
    /\ ret' = IF 0 \in Epochs(config) THEN Ret("running", "None", 0) ELSE Ret("ok", "None", 0)
    /\ lastOp' = Op("learn_batch", 0, train_name, train_len, IF has_val THEN val_len ELSE -1)
    /\ ncalls' = ncalls + 1
    /\ loss' = NoLoss /\ meter' = <<>> /\ val_meter' = <<>>
    /\ UNCHANGED <<inputVars, meterVars, valid_out_dim, training, model_training, reset_optimizer,
                   params>>

epoch_begin_keeping_meters ==
    /\ pc = "epoch"
    /\ model_training' = TRUE
    /\ scheduler' = [scheduler EXCEPT !.steps = @ + 1, !.last_epoch = lb.epoch]
    /\ lb' = [lb EXCEPT !.i = 0, !.sched_steps = @ + 1,
                        !.visited = Append(@, lb.epoch),
                        !.log = Log(config,
                                    Log(config,
                                        Log(config, @, Line("Epoch", lb.epoch, 0)),
                                        Line("LR", lb.epoch, 0)),
                                    Line("header", lb.epoch, 0))]
    /\ pc' = IF lb.train_len > 0 THEN "fetch" ELSE "epoch_end"
    /\ UNCHANGED <<inputVars, meterVars, valid_out_dim, training, criterion_fn, reset_optimizer, config_optimizer,
                   optimizer, params, loss, meter, val_meter, ncalls, lastOp, ret>>

\* the head of an epoch: fresh meters, self.model.train(), self.scheduler.step(epoch)
epoch_begin ==
    /\ pc = "epoch"
    /\ meter' = <<>>
    /\ model_training' = TRUE
    /\ scheduler' = [scheduler EXCEPT !.steps = @ + 1, !.last_epoch = lb.epoch]
    /\ lb' = [lb EXCEPT !.i = 0, !.sched_steps = @ + 1, !.losses = <<>>,
                        !.visited = Append(@, lb.epoch),
                        !.log = Log(config,
                                    Log(config,
                                        Log(config, @, Line("Epoch", lb.epoch, 0)),
                                        Line("LR", lb.epoch, 0)),
                                    Line("header", lb.epoch, 0))]
    /\ pc' = IF lb.train_len > 0 THEN "fetch" ELSE "epoch_end"
    /\ UNCHANGED <<inputVars, meterVars, valid_out_dim, training, criterion_fn, reset_optimizer, config_optimizer,
                   optimizer, params, loss, val_meter, ncalls, lastOp, ret>>

\* for i, (input, target, task) in enumerate(train_loader)
next_batch ==
    /\ pc = "fetch"
    /\ lb' = [lb EXCEPT !.batches = @ + 1, !.done = <<>>]
    /\ pc' = "forward"
    /\ UNCHANGED <<inputVars, meterVars, agentVars, loss, meter, val_meter, ncalls, lastOp, ret>>

\* update_model: out = self.forward(inputs)
update_model_forward ==
    /\ pc = "forward"
    /\ lb' = [lb EXCEPT !.done = Append(@, "forward")]
    /\ pc' = "criterion"
    /\ UNCHANGED <<inputVars, meterVars, agentVars, loss, meter, val_meter, ncalls, lastOp, ret>>

\* update_model: loss = self.criterion(out, targets, tasks); an error ends the call
update_model_criterion ==
    /\ pc = "criterion"
    /\ loss' = criterion(multihead(config), forward(config), tasks, criterion_fn, base,
                         valid_out_dim)
    /\ IF loss'.status = "ok"
       THEN pc' = "zero_grad" /\ UNCHANGED ret
       ELSE pc' = "idle" /\ ret' = Ret(loss'.status, "None", 0)
    /\ lb' = [lb EXCEPT !.done = Append(@, "criterion")]
    /\ UNCHANGED <<inputVars, meterVars, agentVars, meter, val_meter, ncalls, lastOp>>

\* update_model: self.optimizer.zero_grad()
update_model_zero_grad ==
    /\ pc = "zero_grad"
    /\ optimizer' = [optimizer EXCEPT !.zero_grads = @ + 1]
    /\ lb' = [lb EXCEPT !.done = Append(@, "zero_grad")]
    /\ pc' = "backward"
    /\ UNCHANGED <<inputVars, meterVars, valid_out_dim, training, model_training, criterion_fn,
                   reset_optimizer, config_optimizer, scheduler, params, loss, meter, val_meter,
                   ncalls, lastOp, ret>>

\* update_model: loss.backward(); a loss no head contributed to is the Python
\* float 0.0, which has no backward
update_model_backward ==
    /\ pc = "backward"
    /\ IF loss.terms # <<>>
       THEN pc' = "step" /\ UNCHANGED ret
       ELSE pc' = "idle" /\ ret' = Ret("AttributeError", "None", 0)
    /\ lb' = [lb EXCEPT !.done = Append(@, "backward")]
    /\ UNCHANGED <<inputVars, meterVars, agentVars, loss, meter, val_meter, ncalls, lastOp>>

update_model_without_step ==
    /\ pc = "step"
    /\ pc' = "record"
    /\ UNCHANGED <<inputVars, meterVars, agentVars, lb, loss, meter, val_meter, ncalls,
                   lastOp, ret>>

\* update_model: self.optimizer.step()
update_model_step ==
    /\ pc = "step"
    /\ optimizer' = [optimizer EXCEPT !.steps = @ + 1]
    /\ params' = params + 1
    /\ lb' = [lb EXCEPT !.done = Append(@, "step"), !.opt_steps = @ + 1]
    /\ pc' = "record"
    /\ UNCHANGED <<inputVars, meterVars, valid_out_dim, training, model_training, criterion_fn,
                   reset_optimizer, config_optimizer, scheduler, loss, meter, val_meter,
                   ncalls, lastOp, ret>>

\* the rest of the loop body: the metric meter is fed through the accumulate helper
record_batch ==
    /\ pc = "record"
    /\ meter' = AccumulateFor(lb.train_name, forward(config), tasks, meter)
    /\ lb' = [lb EXCEPT !.i = @ + 1,
                        !.losses = Append(@, [num |-> loss.num, den |-> loss.den,
                                              n |-> Len(tasks)]),
                        !.log = IF ProgressDue(config, lb.i, lb.train_len)
                                THEN Log(config, @, Line("progress", lb.epoch, lb.i))
                                ELSE @]
    /\ pc' = IF lb.i + 1 < lb.train_len THEN "fetch" ELSE "epoch_end"
    /\ UNCHANGED <<inputVars, meterVars, agentVars, loss, val_meter, ncalls, lastOp, ret>>

ValidationAlways(has_val) == TRUE

\* if val_loader != None
ValidationDue(has_val) == has_val

\* after the batches of an epoch: validation when a loader was given, then the
\* next epoch or the return; an error raised by validation ends the call
epoch_end ==
    /\ pc = "epoch_end"
    /\ LET due == ValidationDue(lb.has_val)
           val == ValidationReturn(lb.train_name, config.output_mode, lb.val_len)
           failed == due /\ val.status # "ok"
           more == (lb.epoch + 1) \in Epochs(config)
       IN  /\ IF due
              THEN ValidationEffect(lb.train_name, lb.val_len)
              ELSE UNCHANGED <<agentVars, val_meter>>
           /\ lb' = [lb EXCEPT !.val_calls = IF due THEN @ + 1 ELSE @,
                               !.epoch = IF failed THEN @ ELSE @ + 1,
                               !.log = LET summary == Log(config, @, Line("summary", lb.epoch, 0))
                                       IN  IF due /\ val.status = "ok" /\ val.kind # "None"
                                           THEN Log(config, summary, Line("val", lb.epoch, 0))
                                           ELSE summary]
           /\ pc' = IF ~failed /\ more THEN "epoch" ELSE "idle"
           /\ ret' = IF failed THEN val
                     ELSE IF more THEN ret ELSE Ret("ok", "None", 0)
    /\ UNCHANGED <<inputVars, meterVars, loss, meter, ncalls, lastOp>>

----------------------------------------------------------------------------
(* The agent's life: any sequence of calls *)

Next ==
    \/ \E dim \in Dims : add_valid_output_dim(dim)
    \/ learn_stream
    \/ predict
    \/ save_model
    \/ call_init_optimizer
    \/ \E val_name \in TaskNames, n \in LoaderLens : validation(val_name, n)
    \/ \E train_name \in TaskNames, train_len \in LoaderLens, has_val \in BOOLEAN,
          val_len \in LoaderLens :
            (has_val \/ val_len = 1) /\ learn_batch(train_name, train_len, has_val, val_len)
    \/ epoch_begin
    \/ next_batch
    \/ update_model_forward
    \/ update_model_criterion
    \/ update_model_zero_grad
    \/ update_model_backward
    \/ update_model_step
    \/ record_batch
    \/ epoch_end

Spec == Init /\ [][Next]_vars

----------------------------------------------------------------------------
(* criterion and the accumulate helpers on every batch: the agent after        *)
(* learn_batch chose its base loss function, given one mini-batch              *)

InitLoss ==
    /\ config \in { Cfg(o, <<1>>, "classification") : o \in OutDims }
    /\ tasks \in Batches
    /\ base \in [Keys(config) -> LossVals]
    /\ scores = [k \in Keys(config) |-> 1000]
    /\ training = TRUE
    /\ model_training = TRUE
    /\ criterion_fn = LossFnOf(config.output_mode)
    /\ optimizer = init_optimizer(1, config.optimizer).optimizer
    /\ scheduler = init_optimizer(1, config.optimizer).scheduler
    /\ config_optimizer = init_optimizer(1, config.optimizer).config_optimizer
    /\ params = 0
    /\ reset_optimizer = FALSE
    /\ valid_out_dim = ALL
    /\ pc = "idle"
    /\ lb = NoLB
    /\ loss = NoLoss
    /\ meter = <<>>
    /\ val_meter = <<>>
    /\ ncalls = 0
    /\ lastOp = Op("__init__", 0, "", 0, 0)
    /\ ret = Ret("ok", "None", 0)
    /\ avg_meter = AverageMeter
    /\ applied = <<>>

\* self.criterion(self.forward(inputs), targets, tasks)
call_criterion ==
    /\ pc = "idle"
    /\ loss' = criterion(multihead(config), forward(config), tasks, criterion_fn, base,
                         valid_out_dim)
    /\ meter' = <<>>
    /\ lastOp' = Op("criterion", 0, "", 0, 0)
    /\ ret' = Ret(loss'.status, "loss", 0)
    /\ UNCHANGED <<inputVars, meterVars, agentVars, pc, lb, val_meter, ncalls>>

\* accumulate_mcc / accumulate_acc / accumulate_corr on a fresh meter, as the pass
\* over the task `name` calls it
call_accumulate(name) ==
    /\ pc = "idle"
    /\ meter' = AccumulateFor(name, forward(config), tasks, <<>>)
    /\ loss' = NoLoss
    /\ lastOp' = Op("accumulate", 0, name, 0, 0)
    /\ ret' = Ret("ok", MeterOf(name), 0)
    /\ UNCHANGED <<inputVars, meterVars, agentVars, pc, lb, val_meter, ncalls>>

NextLoss ==
    \/ \E dim \in Dims : add_valid_output_dim(dim)
    \/ call_criterion
    \/ \E name \in TaskNames : call_accumulate(name)

SpecLoss == InitLoss /\ [][NextLoss]_vars

----------------------------------------------------------------------------
(* Training runs: learn_batch calls on an agent whose owner sets reset_optimizer *)

InitTrain ==
    /\ config \in TrainConfigs
    /\ tasks = <<"All", "A", "B">>
    /\ base = [k \in Keys(config) |-> 1000]
    /\ scores = [k \in Keys(config) |-> 1000]
    /\ InitAgent

\* agent.reset_optimizer = flag, the attribute assigned by the owner of the agent
set_reset_optimizer(flag) ==
    /\ pc = "idle"
    /\ reset_optimizer # flag
    /\ reset_optimizer' = flag
    /\ UNCHANGED <<inputVars, meterVars, valid_out_dim, training, model_training,
                   criterion_fn, config_optimizer, optimizer, scheduler, params, pc, lb, loss, meter,
                   val_meter, ncalls, lastOp, ret>>

NextTrain ==
    \/ \E flag \in BOOLEAN : set_reset_optimizer(flag)
    \/ \E train_name \in TaskNames, train_len \in TrainLens, has_val \in BOOLEAN :
            learn_batch(train_name, train_len, has_val, 1)
    \/ epoch_begin
    \/ next_batch
    \/ update_model_forward
    \/ update_model_criterion
    \/ update_model_zero_grad
    \/ update_model_backward
    \/ update_model_step
    \/ record_batch
    \/ epoch_end

SpecTrain == InitTrain /\ [][NextTrain]_vars

----------------------------------------------------------------------------
(* Optimizer runs: every configured optimizer, rebuilt by init_optimizer calls
   and by learn_batch calls that reset *)

\* the configurations of an optimizer run: every optimizer name
OptConfigs ==
    { WithOptimizer(Cfg(SingleHeadAll, <<1>>, "classification"), name) :
        name \in OptimizerNames }

InitOpt ==
    /\ config \in OptConfigs
    /\ tasks = <<"All", "A", "B">>
    /\ base = [k \in Keys(config) |-> 1000]
    /\ scores = [k \in Keys(config) |-> 1000]
    /\ InitAgent

NextOpt ==
    \/ \E flag \in BOOLEAN : set_reset_optimizer(flag)
    \/ call_init_optimizer
    \/ \E train_name \in TaskNames, train_len \in LoaderLens :
            learn_batch(train_name, train_len, FALSE, 1)
    \/ epoch_begin
    \/ next_batch
    \/ update_model_forward
    \/ update_model_criterion
    \/ update_model_zero_grad
    \/ update_model_backward
    \/ update_model_step
    \/ record_batch
    \/ epoch_end

SpecOpt == InitOpt /\ [][NextOpt]_vars

----------------------------------------------------------------------------
(* One meter of one pass over a loader, fed its update calls in any order *)

InitMeter ==
    /\ config \in { Cfg(o, <<1>>, "classification") : o \in OutDims }
    /\ tasks \in Batches
    /\ base = [k \in Keys(config) |-> 1000]
    /\ scores \in [Keys(config) -> ScoreVals]
    /\ training = TRUE
    /\ model_training = TRUE
    /\ criterion_fn = LossFnOf(config.output_mode)
    /\ optimizer = init_optimizer(1, config.optimizer).optimizer
    /\ scheduler = init_optimizer(1, config.optimizer).scheduler
    /\ config_optimizer = init_optimizer(1, config.optimizer).config_optimizer
    /\ params = 0
    /\ reset_optimizer = FALSE
    /\ valid_out_dim = ALL
    /\ pc = "idle"
    /\ lb = NoLB
    /\ loss = NoLoss
    /\ \E name \in TaskNames, n \in LoaderLens :
           /\ meter = ValidationLoop(name, forward(config), tasks, n, <<>>)
           /\ lastOp = Op("accumulate", 0, name, 0, n)
    /\ val_meter = <<>>
    /\ ncalls = 0
    /\ ret = Ret("ok", "None", 0)
    /\ avg_meter = AverageMeter
    /\ applied = <<>>

\* meter.update(metric(output[t][inds], target[inds]), len(inds)), for the j-th
\* update call of the pass
meter_update(j) ==
    /\ j \notin Range(applied)
    /\ avg_meter' = MeterUpdate(avg_meter, scores[meter[j].key], meter[j].n)
    /\ applied' = Append(applied, j)
    /\ UNCHANGED <<inputVars, agentVars, pc, lb, loss, meter, val_meter, ncalls,
                   lastOp, ret>>

NextMeter == \E j \in DOMAIN meter : meter_update(j)

SpecMeter == InitMeter /\ [][NextMeter]_vars

----------------------------------------------------------------------------
(* Properties of the calls *)

Called(name) == ncalls' = ncalls + 1 /\ lastOp'.op = name

InBatch == pc \in {"fetch", "forward", "criterion", "zero_grad", "backward", "step", "record"}

Returned(name) == pc = "idle" /\ lastOp.op = name

\* C1: valid_out_dim is ALL after construction; add_valid_output_dim(d) with d > 0
\* leaves the integer d and returns d when called in state ALL, and leaves n+d and
\* returns n+d when called in integer state n.
AddValidOutputDimAdds ==
    /\ [](lastOp.op = "__init__" => valid_out_dim = ALL)
    /\ [][(Called("add_valid_output_dim") /\ lastOp'.dim > 0) =>
            /\ (~IsInt(valid_out_dim) =>
                    valid_out_dim' = IntDim(lastOp'.dim) /\ ret'.n = lastOp'.dim)
            /\ (IsInt(valid_out_dim) =>
                    /\ valid_out_dim' = IntDim(valid_out_dim.n + lastOp'.dim)
                    /\ ret'.n = valid_out_dim.n + lastOp'.dim)
            /\ ret'.status = "ok"]_vars

\* ALL, add 10, add 5 has ended in 15
AddTenThenFive ==
    /\ ncalls = 2
    /\ lastOp = Op("add_valid_output_dim", 5, "", 0, 0)
    /\ valid_out_dim = IntDim(15)
    /\ ret = Ret("ok", "int", 15)

\* C2: valid_out_dim is always ALL or a non-negative integer; once an integer it
\* never returns to ALL, and no call of add_valid_output_dim, whatever integer dim
\* it is given, makes it smaller than it was.
ValidOutDimNeverDecreases ==
    /\ [](IsInt(valid_out_dim) => valid_out_dim.n >= 0)
    /\ [][IsInt(valid_out_dim) =>
            IsInt(valid_out_dim') /\ valid_out_dim'.n >= valid_out_dim.n]_vars

RECURSIVE WeightedSum(_, _, _)
WeightedSum(heads, b, tk) ==
    IF heads = {} THEN 0
    ELSE LET t == CHOOSE x \in heads : TRUE
         IN  b[t] * Cardinality({ i \in 1..Len(tk) : tk[i] = t })
               + WeightedSum(heads \ {t}, b, tk)

\* C3: in multi-head mode criterion returns the sum, over the task heads, of the
\* head's base loss times the number of samples labelled with that task, divided by
\* the batch size.
MultiHeadLossIsWeightedAverage ==
    (Returned("criterion") /\ multihead(config)) =>
        /\ loss.status = "ok"
        /\ loss.num = WeightedSum(Keys(config), base, tasks)
        /\ loss.den = Len(tasks)

\* task counts {A: 3, B: 5} with base losses {A: 1.0, B: 2.0} gave 1.625
WorkedExampleLoss ==
    /\ Returned("criterion")
    /\ forward(config).keys = <<"A", "B">>
    /\ tasks = ExampleBatch
    /\ base["A"] = 1000 /\ base["B"] = 2000
    /\ loss.num = 1625 * loss.den

EmptyHeads == { t \in Keys(config) : \A i \in 1..Len(tasks) : tasks[i] # t }

\* C4: in multi-head mode a head none of whose samples is in the batch has the base
\* loss function not applied to it and brings no update to the metric meter.
EmptyHeadContributesNothing ==
    multihead(config) =>
        \A t \in EmptyHeads :
            /\ Returned("criterion") => \A j \in 1..Len(loss.terms) : loss.terms[j].key # t
            /\ Returned("accumulate") => \A j \in 1..Len(meter) : meter[j].key # t

\* C5: in single-head mode on an output with the key 'All', the loss is computed on
\* exactly the columns below valid_out_dim when that is an integer, and on all the
\* columns when it is ALL.
LossUsesFirstValidColumns ==
    (Returned("criterion") /\ ~multihead(config) /\ forward(config).kind = "dict"
        /\ HasKey(forward(config), "All")) =>
        /\ loss.status = "ok"
        /\ Len(loss.terms) = 1
        /\ loss.terms[1].cols =
              IF IsInt(valid_out_dim)
              THEN { c \in Columns(config.out_dim[1].dim) : c < valid_out_dim.n }
              ELSE Columns(config.out_dim[1].dim)

\* C6: in every epoch of learn_batch the scheduler is stepped once, before the first
\* mini-batch, and validation is invoked once, after the last mini-batch, exactly
\* when a validation loader was given; a call that returns has stepped the
\* scheduler once per epoch of the schedule and validated once per epoch or never.
SchedulerAndValidationOncePerEpoch ==
    LET validated(n) == lb.val_calls = IF lb.has_val THEN n ELSE 0
    IN  /\ pc = "epoch" => lb.sched_steps = lb.epoch /\ validated(lb.epoch)
        /\ (InBatch \/ pc = "epoch_end") =>
              /\ lb.sched_steps = lb.epoch + 1
              /\ scheduler.last_epoch = lb.epoch
              /\ validated(lb.epoch)
        /\ (Returned("learn_batch") /\ ret.status = "ok") =>
              /\ lb.epoch = Last(config.schedule)
              /\ lb.sched_steps = Last(config.schedule)
              /\ validated(Last(config.schedule))
        /\ (Returned("learn_batch") /\ ret.status # "ok") =>
              /\ lb.sched_steps = lb.epoch + 1
              /\ lb.val_calls \in {lb.epoch, lb.epoch + 1}

\* a run with schedule [1] and a validation loader has returned
OneEpochRunValidatedOnce ==
    /\ Returned("learn_batch") /\ ret.status = "ok"
    /\ config.schedule = <<1>>
    /\ lb.has_val /\ lb.val_calls = 1 /\ lb.sched_steps = 1
    /\ lb.i = lb.train_len

\* C7: the wrapped model's training/eval mode after validation is its mode before
\* the call.
ValidationRestoresModelMode ==
    [][Called("validation") => model_training' = model_training]_vars

\* C8: validation leaves the optimizer, the scheduler, the parameters, valid_out_dim
\* and the base loss function as they were.
ValidationIsReadOnly ==
    [][Called("validation") =>
            UNCHANGED <<optimizer, scheduler, params, valid_out_dim, criterion_fn>>]_vars

\* C9: validation iterates its loader once and returns the average of the meter it
\* fed for the task, whatever args.output_mode is.
ValidationReturnsItsMeter ==
    Returned("validation") =>
        /\ ret.status = "ok"
        /\ ret.kind = MeterOf(lastOp.name)
        /\ ret.n = lastOp.val_len

\* C10: learn_stream fails in every state and changes no agent state.
LearnStreamAlwaysFails ==
    [][Called("learn_stream") =>
            ret'.status = "AssertionError" /\ UNCHANGED agentVars]_vars

\* learn_stream has failed on an agent whose valid_out_dim had been set
LearnStreamFailed ==
    /\ Returned("learn_stream")
    /\ ret.status = "AssertionError"
    /\ IsInt(valid_out_dim)

\* the order-free totals of the update calls S of a log
RECURSIVE WeightedTotal(_, _, _)
WeightedTotal(S, log, sc) ==
    IF S = {} THEN 0
    ELSE LET j == CHOOSE k \in S : TRUE
         IN  sc[log[j].key] * log[j].n + WeightedTotal(S \ {j}, log, sc)

RECURSIVE TotalWeight(_, _)
TotalWeight(S, log) ==
    IF S = {} THEN 0
    ELSE LET j == CHOOSE k \in S : TRUE
         IN  log[j].n + TotalWeight(S \ {j}, log)

\* C11: update(value, weight) adds value * weight to the sum and weight to the
\* count, so whatever the order in which the update calls of a pass reach the
\* meter, its sum and count are the totals of the calls it received, and once it
\* has received them all its avg is the avg of the order the heads are iterated in
MeterIsOrderIndependent ==
    /\ avg_meter.sum = WeightedTotal(Range(applied), meter, scores)
    /\ avg_meter.count = TotalWeight(Range(applied), meter)
    /\ Len(applied) = Len(meter)
         => SameAvg(avg_meter, MeterAfter(meter, scores, Len(meter)))

\* both heads' updates of one batch applied in the reverse of the loop's order,
\* with different values and different weights
HeadsUpdatedInReverse ==
    /\ Len(meter) = 2
    /\ applied = <<2, 1>>
    /\ scores[meter[1].key] # scores[meter[2].key]
    /\ meter[1].n # meter[2].n
    /\ avg_meter.count = Len(tasks)

UpdateModelSteps == <<"forward", "criterion", "zero_grad", "backward", "step">>

IsPrefix(s, t) == Len(s) <= Len(t) /\ \A k \in 1..Len(s) : s[k] = t[k]

\* C12: the steps taken on a batch are, in this order, forward, criterion,
\* zero_grad, backward, optimizer step; a batch that update_model returned from
\* took all five, the optimizer stepped once per such batch, and while a batch is
\* being worked on every earlier batch of the call has had its step
BatchStepsInOrder ==
    /\ IsPrefix(lb.done, UpdateModelSteps)
    /\ pc \in {"forward", "criterion", "zero_grad", "backward", "step"}
         => lb.opt_steps = lb.batches - 1
    /\ pc \in {"record", "fetch", "epoch", "epoch_end"}
         => /\ lb.opt_steps = lb.batches
            /\ lb.batches > 0 => lb.done = UpdateModelSteps
    /\ pc = "idle" => lb.batches - lb.opt_steps \in {0, 1}

\* a call that fetched two batches and returned: two optimizer steps
TwoBatchesTwoSteps ==
    /\ Returned("learn_batch")
    /\ ret.status = "ok"
    /\ lb.batches = 2
    /\ lb.opt_steps = 2
    /\ lb.done = UpdateModelSteps
    /\ optimizer.steps = 2 /\ optimizer.zero_grads = 2

\* the epoch indices 0, 1, ..., n - 1 in increasing order
FirstEpochs(n) == [k \in 1..n |-> k - 1]

\* how far a learn_batch call has come: whole epochs, then the place in the
\* current one (its head, seven steps per batch, its end)
Progress(p, l) ==
    LET epoch_len == 2 + 7 * l.train_len
        place == CASE p = "epoch" -> 0
                   [] p = "fetch" -> 1 + 7 * l.i
                   [] p = "forward" -> 2 + 7 * l.i
                   [] p = "criterion" -> 3 + 7 * l.i
                   [] p = "zero_grad" -> 4 + 7 * l.i
                   [] p = "backward" -> 5 + 7 * l.i
                   [] p = "step" -> 6 + 7 * l.i
                   [] p = "record" -> 7 + 7 * l.i
                   [] OTHER -> 1 + 7 * l.train_len
    IN  l.epoch * epoch_len + place

Recorded ==
    IF lb.visited = <<>> THEN {}
    ELSE { <<lb.visited[k], i>> : k \in 1..(Len(lb.visited) - 1), i \in 0..(lb.train_len - 1) }
         \cup { <<Last(lb.visited), i>> : i \in 0..(lb.i - 1) }

ProgressLines == { k \in DOMAIN lb.log : lb.log[k].kind = "progress" }

\* C14: with print_freq = p > 0 a batch gets a progress line, and just one,
\* exactly when its index is a multiple of p or it is the last batch of the
\* epoch; with print_freq <= 0 no line at all is emitted
ProgressLinesFollowPrintFreq ==
    /\ config.print_freq > 0 =>
          /\ { <<lb.log[k].epoch, lb.log[k].i>> : k \in ProgressLines }
                = { b \in Recorded : b[2] % config.print_freq = 0 \/ b[2] + 1 = lb.train_len }
          /\ \A j, k \in ProgressLines :
                (lb.log[j].epoch = lb.log[k].epoch /\ lb.log[j].i = lb.log[k].i) => j = k
    /\ config.print_freq <= 0 => lb.log = <<>>

\* print_freq 2 on a loader of three batches: lines for batches 0 and 2, none
\* for batch 1
EveryOtherBatchLogged ==
    /\ Returned("learn_batch")
    /\ ret.status = "ok"
    /\ config.print_freq = 2
    /\ lb.train_len = 3
    /\ { lb.log[k].i : k \in ProgressLines } = {0, 2}

\* C15: a learn_batch call made with reset_optimizer set starts by replacing the
\* optimizer and the scheduler by new ones, before any scheduler step or batch
\* of the call; a call made with the flag unset keeps both as they are; and
\* nothing else replaces them, so their state carries over
ResetOnlyAtCallStart ==
    [][/\ (Called("learn_batch") /\ reset_optimizer) =>
            /\ optimizer'.gen = optimizer.gen + 1
            /\ optimizer'.steps = 0 /\ optimizer'.zero_grads = 0
            /\ scheduler'.gen = optimizer'.gen
            /\ scheduler'.steps = 0 /\ scheduler'.last_epoch = -1
            /\ lb'.resets = 1 /\ lb'.sched_steps = 0 /\ lb'.batches = 0
       /\ (Called("learn_batch") /\ ~reset_optimizer) =>
            /\ UNCHANGED <<optimizer, scheduler>>
            /\ lb'.resets = 0
       /\ ~Called("learn_batch") =>
            /\ optimizer'.gen = optimizer.gen /\ scheduler'.gen = scheduler.gen
            /\ optimizer'.steps >= optimizer.steps
            /\ scheduler'.steps >= scheduler.steps
            /\ lb'.resets = lb.resets]_vars

\* a second learn_batch call, made with the flag set, has returned: the optimizer
\* is the second one and has only this call's steps, while the parameters also
\* carry the first call's
SecondCallWasReset ==
    /\ Returned("learn_batch")
    /\ ret.status = "ok"
    /\ ncalls = 2
    /\ lb.resets = 1
    /\ optimizer.gen = 2 /\ scheduler.gen = 2
    /\ optimizer.steps = lb.opt_steps
    /\ params > optimizer.steps

\* C16: in single-head mode with valid_out_dim an integer k (some but not all of
\* the columns), the metric over the 'All' output is computed on the first k
\* columns only, the columns the loss uses.
MetricUsesFirstValidColumns ==
    LET out == forward(config)
    IN  (Returned("accumulate") /\ ~multihead(config) /\ out.kind = "dict"
            /\ HasKey(out, "All") /\ IsInt(valid_out_dim)
            /\ valid_out_dim.n \in 1..(out.width[KeyIndex(out, "All")] - 1)) =>
            \A j \in 1..Len(meter) :
                meter[j].cols = SliceTo(out.width[KeyIndex(out, "All")], valid_out_dim.n)

\* C17: valid_out_dim changes only in a call of add_valid_output_dim; every other
\* call and every step of learn_batch, the criterion step included, leaves it as
\* it is.
OnlyAddValidOutputDimWrites ==
    [][valid_out_dim' # valid_out_dim => Called("add_valid_output_dim")]_vars

\* a learn_batch call on an agent whose valid_out_dim had been set to 10 has
\* computed a loss on the first ten columns and returned, the value still 10
TrainedWithDimKept ==
    /\ Returned("learn_batch")
    /\ ret.status = "ok"
    /\ valid_out_dim = IntDim(10)
    /\ loss.status = "ok"
    /\ loss.terms[1].cols = Columns(10)

\* C18: within an epoch the loss meter and the metric meter hold the updates of
\* the batches of that epoch recorded so far and nothing else: none at its
\* start, and at its end one loss update per batch, weighted by the batch's
\* sample count; the meter of a validation pass holds that pass's updates only.
MetersHoldOnePass ==
    /\ (InBatch \/ pc = "epoch_end") =>
          /\ Len(lb.losses) = lb.i
          /\ \A k \in DOMAIN lb.losses : lb.losses[k].n = Len(tasks)
          /\ TotalWeight(DOMAIN lb.losses, lb.losses) = lb.i * Len(tasks)
          /\ meter = ValidationLoop(lb.train_name, forward(config), tasks, lb.i, <<>>)
    /\ pc = "epoch_end" =>
          TotalWeight(DOMAIN lb.losses, lb.losses) = lb.train_len * Len(tasks)
    /\ val_meter # <<>> =>
          \E name \in TaskNames, n \in LoaderLens :
              val_meter = ValidationLoop(name, forward(config), tasks, n, <<>>)

\* the end of the second epoch of a call that validates: the loss meter counts
\* the two batches of this epoch, after an epoch and a validation pass before it
SecondEpochCountsItsOwn ==
    /\ pc = "epoch_end"
    /\ lb.epoch = 1
    /\ lb.val_calls = 1
    /\ lb.train_len = 2
    /\ Len(lb.losses) = 2
    /\ TotalWeight(DOMAIN lb.losses, lb.losses) = 2 * Len(tasks)

\* C19: in single-head mode on an output without the key 'All', criterion takes
\* preds[1]: on a task-keyed dict that is a KeyError and no loss is returned; a
\* loss comes back only from an output with a second positional entry, the
\* logits of a SequenceClassifierOutput, on which the base loss is applied once.
FallbackFailsOnTaskKeyedMap ==
    LET out == forward(config)
    IN  (Returned("criterion") /\ ~multihead(config) /\ ~HasKey(out, "All")) =>
            IF out.kind = "dict"
            THEN loss.status = "KeyError" /\ loss.terms = <<>> /\ ret.status = "KeyError"
            ELSE /\ loss.status = "ok"
                 /\ Len(loss.terms) = 1
                 /\ loss.terms[1].key = out.keys[2]
                 /\ loss.num = base[out.keys[2]] /\ loss.den = 1

\* criterion has failed on the output of a model whose one head is named 'A'
SingleNamedHeadFailed ==
    /\ Returned("criterion")
    /\ Len(config.out_dim) = 1
    /\ config.out = "dict"
    /\ config.out_dim[1].task = "A"
    /\ loss.status = "KeyError"

\* C20: for every multi-head batch (heads named after tasks), the index subsets
\* the loss terms were computed on are pairwise disjoint and cover every sample
\* of the batch, so their sizes sum to len(targets).
HeadSubsetsPartitionBatch ==
    (Returned("criterion") /\ multihead(config) /\ ~HasKey(forward(config), "All")
        /\ loss.status = "ok") =>
        /\ \A j, k \in DOMAIN loss.terms :
              j # k => loss.terms[j].rows \cap loss.terms[k].rows = {}
        /\ UNION { loss.terms[j].rows : j \in DOMAIN loss.terms } = Rows(tasks)
        /\ TotalWeight(DOMAIN loss.terms,
                       [j \in DOMAIN loss.terms |-> [n |-> loss.terms[j].weight]])
              = Len(tasks)
        /\ loss.den = Len(tasks)

\* C21: whatever init_optimizer calls and resetting learn_batch calls were made,
\* the agent's optimizer is of the kind and has the options of the one built at
\* construction from the configured name; Rprop has no weight decay, and
\* 'amsgrad' is Adam with the AMSGrad flag.
InitOptimizerRepeatable ==
    LET first == init_optimizer(1, config.optimizer).optimizer
    IN  /\ optimizer.kind = first.kind
        /\ optimizer.args = first.args
        /\ config.optimizer = "Rprop" => "weight_decay" \notin optimizer.args
        /\ config.optimizer = "amsgrad" =>
              optimizer.kind = "Adam" /\ "amsgrad" \in optimizer.args

============================================================================
